---- MODULE Spec2Model ----
(***************************************************************************)
(* State machine of state-dump.py: main() parses the arguments, sets the   *)
(* logging threshold and runs the coroutine run_client, which opens the    *)
(* output file, fetches block, accounts, validators and per-validator      *)
(* stakers from the node one call at a time, classifies the accounts,      *)
(* normalizes validators and stakers, assembles the TOML dictionary and    *)
(* writes the provenance header and the document.                          *)
(*                                                                         *)
(* The coroutine's position is pc.  A remote call is issued by one action  *)
(* and returns (with data or with an exception) in the next.  An exception *)
(* is never caught in the source: it ends the run (pc = "aborted"), after   *)
(* the session has been left when it is raised inside the async-with block.*)
(* Attribute reads on the records (account.receipient, ...) are taken to   *)
(* succeed: the records carry the attributes the source reads.             *)
(***************************************************************************)
EXTENDS Integers, Sequences, FiniteSets, TLC

VARIABLES
    pc,                    \* position of main() / run_client
    args_log_level,        \* args.log_level: one -1 per --verbose flag
    log_level,             \* index into LOG_LEVELS set by setup_logging (0-based)
    file_state,            \* "unopened" | "open" | "closed"
    written,               \* chunks written to the output file, in order
    calls,                 \* remote calls issued so far, in order
    pending,               \* number of remote calls issued and not yet returned
    block,                 \* result of get_latest_block
    accounts,              \* accounts.data
    validators,            \* validators.data
    parsed_basic_accounts,
    parsed_htlcs,
    parsed_vesting,
    parsed_validators,
    parsed_stakers,
    idx,                   \* position of the loop over validators.data
    staker_objs,           \* per validator, the staker objects of its lookup (as mutated)
    raw_stakers,           \* per validator, the staker records as the lookup returned them
    toml_output,           \* the dictionary handed to toml.dump
    failure                \* the first operation that raised, or "none"

vars == <<pc, args_log_level, log_level, file_state, written, calls, pending,
          block, accounts, validators, parsed_basic_accounts, parsed_htlcs,
          parsed_vesting, parsed_validators, parsed_stakers, idx, staker_objs,
          raw_stakers, toml_output, failure>>

(***************************************************************************)
(* Bounds of the inputs.                                                   *)
(***************************************************************************)
MaxVerbose == 2
\* records (accounts, validators, stakers) the node returns in one run, in total
MaxRecords == 4

(***************************************************************************)
(* Program constants.                                                      *)
(***************************************************************************)
LOG_LEVELS == <<"DEBUG", "INFO", "WARNING", "ERROR", "CRITICAL">>
DEFAULT_LOG_LEVEL == "INFO"
MIN_STAKE == 10000000

(***************************************************************************)
(* Sample records the node may return.                                     *)
(***************************************************************************)
AccountPool ==
    { [type |-> "basic", address |-> "NQ01", balance |-> 500],
      [type |-> "vesting", address |-> "NQ02", owner |-> "NQ01", balance |-> 700,
       startTime |-> 1, timeStep |-> 2, stepAmount |-> 3, totalAmount |-> 700],
      [type |-> "htlc", address |-> "NQ03", sender |-> "NQ01", receipient |-> "NQ02",
       balance |-> 900, hashRoot |-> "r", hashCount |-> 1, timeout |-> 5,
       totalAmount |-> 900],
      [type |-> "frozen", address |-> "NQ04", balance |-> 100] }

ValidatorPool ==
    { [address |-> "V1", signingKey |-> "sk1", votingKey |-> "vk1",
       rewardAddress |-> "R1", inactivityFlag |-> 0, retired |-> FALSE,
       jailedFrom |-> 0, balance |-> 50],
      [address |-> "V2", signingKey |-> "sk2", votingKey |-> "vk2",
       rewardAddress |-> "R2", inactivityFlag |-> 7, retired |-> TRUE,
       jailedFrom |-> 9, balance |-> 60] }

StakerPool ==
    { [address |-> "S1", balance |-> 1000000, delegation |-> "V1",
       inactiveBalance |-> 0, inactiveFrom |-> 0],
      [address |-> "S2", balance |-> MIN_STAKE, delegation |-> "V1",
       inactiveBalance |-> 0, inactiveFrom |-> 0],
      [address |-> "S3", balance |-> MIN_STAKE + 1, delegation |-> "V2",
       inactiveBalance |-> 5, inactiveFrom |-> 3] }

BlockPool == { [number |-> 100, hash |-> "h100"] }
NoBlock == [number |-> 0, hash |-> ""]

SeqsUpTo(S, n) == UNION { [1..k -> S] : k \in 0..n }

Min(a, b) == IF a < b THEN a ELSE b
Max(a, b) == IF a > b THEN a ELSE b

(***************************************************************************)
(* setup_logging                                                           *)
(***************************************************************************)
IndexOf(seq, x) == (CHOOSE i \in 1..Len(seq) : seq[i] = x) - 1

AdjustLevelNoFloor(level, adjustment) == Min(Len(LOG_LEVELS) - 1, level + adjustment)
AdjustLevel(level, adjustment) ==
    Min(Len(LOG_LEVELS) - 1, Max(level + adjustment, 0))

RECURSIVE FoldLevel(_, _)
FoldLevel(level, adjustments) ==
    IF adjustments = <<>> THEN level
    ELSE FoldLevel(AdjustLevel(level, Head(adjustments)), Tail(adjustments))

setup_logging(adjustments) == FoldLevel(IndexOf(LOG_LEVELS, DEFAULT_LOG_LEVEL), adjustments)

(***************************************************************************)
(* The account classifier (loop over accounts.data)                        *)
(***************************************************************************)
HtlcEntry(account) ==
    [address |-> account.address, sender |-> account.sender,
     recepient |-> account.receipient, balance |-> account.balance,
     hash_root |-> account.hashRoot, hash_count |-> account.hashCount,
     timeout |-> account.timeout, total_acount |-> account.totalAmount]

VestingEntry(account) ==
    [address |-> account.address, owner |-> account.owner,
     balance |-> account.balance, start_time |-> account.startTime,
     time_step |-> account.timeStep, step_amount |-> account.stepAmount,
     total_amount |-> account.totalAmount]

BasicEntry(account) ==
    [address |-> account.address, balance |-> account.balance]

NoParsed == [basic |-> <<>>, htlcs |-> <<>>, vesting |-> <<>>]

\* variant: an unrecognized type falls through to the basic accounts
ClassifyOneElseBasic(acc, account) ==
    IF account.type = "htlc"
    THEN [acc EXCEPT !.htlcs = Append(@, HtlcEntry(account))]
    ELSE IF account.type = "vesting"
    THEN [acc EXCEPT !.vesting = Append(@, VestingEntry(account))]
    ELSE [acc EXCEPT !.basic = Append(@, BasicEntry(account))]

ClassifyOne(acc, account) ==
    IF account.type = "htlc"
    THEN [acc EXCEPT !.htlcs = Append(@, HtlcEntry(account))]
    ELSE IF account.type = "vesting"
    THEN [acc EXCEPT !.vesting = Append(@, VestingEntry(account))]
    ELSE IF account.type = "basic"
    THEN [acc EXCEPT !.basic = Append(@, BasicEntry(account))]
    ELSE acc

RECURSIVE ClassifyFrom(_, _)
ClassifyFrom(acc, data) ==
    IF data = <<>> THEN acc
    ELSE ClassifyFrom(ClassifyOne(acc, Head(data)), Tail(data))

ClassifyAccounts(data) == ClassifyFrom(NoParsed, data)

(***************************************************************************)
(* The validator and staker normalizer (loop over validators.data)         *)
(***************************************************************************)
ValidatorEntry(validator) ==
    [validator_address |-> validator.address, signing_key |-> validator.signingKey,
     voting_key |-> validator.votingKey, reward_address |-> validator.rewardAddress,
     inactive_from |-> validator.inactivityFlag, retired |-> validator.retired,
     jailed_from |-> validator.jailedFrom]

\* variant: the comparison reversed
EnforceMinStakeReversed(staker) ==
    IF staker.balance > MIN_STAKE THEN [staker EXCEPT !.balance = MIN_STAKE] ELSE staker

\* "if staker.balance < 10000000: staker.balance = 10000000": the object after the test
EnforceMinStake(staker) ==
    IF staker.balance < MIN_STAKE THEN [staker EXCEPT !.balance = MIN_STAKE] ELSE staker

StakerEntry(staker) ==
    [staker_address |-> staker.address, balance |-> staker.balance,
     delegation |-> staker.delegation, inactive_balance |-> staker.inactiveBalance,
     inactive_from |-> staker.inactiveFrom]

\* variant: a staker below the minimum stake is rejected
MutatedStakersDropLow(data) == SelectSeq(data, LAMBDA st : st.balance >= MIN_STAKE)

\* The staker objects of one lookup after the inner loop has run over them
MutatedStakers(data) == [i \in 1..Len(data) |-> EnforceMinStake(data[i])]

\* variant: the entry is appended before the minimum stake is enforced
ParseStakersBeforeEnforce(data) == [i \in 1..Len(data) |-> StakerEntry(data[i])]

\* The entries the inner loop appends to parsed_stakers for one lookup
ParseStakers(data) ==
    LET objs == MutatedStakers(data) IN [i \in 1..Len(objs) |-> StakerEntry(objs[i])]

(***************************************************************************)
(* The assembled dictionary                                                *)
(***************************************************************************)
CliArgs == [vrf |-> "vrf", parent_hash |-> "ph", parent_election_hash |-> "peh",
            history_root |-> "hr", block_number |-> 1]
Timestamp == "2026-01-01T00:00:00+00:00"

ScalarKeys == {"name", "network", "timestamp", "vrf_seed", "parent_hash",
               "history_root", "parent_election_hash", "block_number"}

\* variant: the validators key is emitted unconditionally
CollectionKeysAlwaysValidators(basic, vesting, htlcs, vals, stakers) ==
    (IF Len(basic) # 0 THEN {"basic_accounts"} ELSE {}) \cup
    (IF Len(vesting) # 0 THEN {"vesting_accounts"} ELSE {}) \cup
    (IF Len(htlcs) # 0 THEN {"htlc_accounts"} ELSE {}) \cup
    {"validators"} \cup
    (IF Len(stakers) # 0 THEN {"stakers"} ELSE {})

CollectionKeys(basic, vesting, htlcs, vals, stakers) ==
    (IF Len(basic) # 0 THEN {"basic_accounts"} ELSE {}) \cup
    (IF Len(vesting) # 0 THEN {"vesting_accounts"} ELSE {}) \cup
    (IF Len(htlcs) # 0 THEN {"htlc_accounts"} ELSE {}) \cup
    (IF Len(vals) # 0 THEN {"validators"} ELSE {}) \cup
    (IF Len(stakers) # 0 THEN {"stakers"} ELSE {})

AssembleOutput(basic, vesting, htlcs, vals, stakers) ==
    [k \in ScalarKeys \cup CollectionKeys(basic, vesting, htlcs, vals, stakers) |->
        CASE k = "name" -> "test-albatross"
          [] k = "network" -> "TestAlbatross"
          [] k = "timestamp" -> Timestamp
          [] k = "vrf_seed" -> CliArgs.vrf
          [] k = "parent_hash" -> CliArgs.parent_hash
          [] k = "history_root" -> CliArgs.history_root
          [] k = "parent_election_hash" -> CliArgs.parent_election_hash
          [] k = "block_number" -> CliArgs.block_number
          [] k = "basic_accounts" -> basic
          [] k = "vesting_accounts" -> vesting
          [] k = "htlc_accounts" -> htlcs
          [] k = "validators" -> vals
          [] k = "stakers" -> stakers]

EmptyDict == [k \in {} |-> ""]

(***************************************************************************)
(* The output file                                                         *)
(***************************************************************************)
\* What the file holds is recorded in two parts: the provenance header (the five
\* file.write calls) and the document (toml.dump).  A part whose write raised is
\* recorded as incomplete: some prefix of it, possibly empty, is in the file.
Header == "header"
HeaderIncomplete == "header (incomplete)"
Document == "document"
DocumentIncomplete == "document (incomplete)"
FileChunks == <<Header, Document>>

(***************************************************************************)
(* Initial state and the steps of the run                                  *)
(***************************************************************************)
Init ==
    /\ pc = "main"
    /\ args_log_level = <<>>
    /\ log_level = IndexOf(LOG_LEVELS, DEFAULT_LOG_LEVEL)
    /\ file_state = "unopened"
    /\ written = <<>>
    /\ calls = <<>>
    /\ pending = 0
    /\ block = NoBlock
    /\ accounts = <<>>
    /\ validators = <<>>
    /\ parsed_basic_accounts = <<>>
    /\ parsed_htlcs = <<>>
    /\ parsed_vesting = <<>>
    /\ parsed_validators = <<>>
    /\ parsed_stakers = <<>>
    /\ idx = 1
    /\ staker_objs = <<>>
    /\ raw_stakers = <<>>
    /\ toml_output = EmptyDict
    /\ failure = "none"

logVars == <<args_log_level, log_level>>
fileVars == <<file_state, written>>
callVars == <<calls, pending>>
parsedAccountVars == <<parsed_basic_accounts, parsed_htlcs, parsed_vesting>>
parsedStakingVars == <<parsed_validators, parsed_stakers, idx, staker_objs, raw_stakers>>

\* the records fetched so far
RecordsFetched == Len(accounts) + Len(validators) + Len(parsed_stakers)

\* An exception raised before the session exists ends the run at once
Abort(op) ==
    /\ pc' = "aborted"
    /\ failure' = op

\* An exception raised inside the async-with block: nothing after the raising
\* statement runs, and the block is left through the session's __aexit__
Raise(op) ==
    /\ pc' = "leaving"
    /\ failure' = op

IssueCall(op, arg) ==
    /\ calls' = Append(calls, [op |-> op, arg |-> arg])
    /\ pending' = pending + 1

\* variant: the lookup is keyed by the wrong address of the validator
StakersCallRewardAddress(validator) ==
    IssueCall("get_stakers_by_validator_address", validator.rewardAddress)

StakersCall(validator) ==
    IssueCall("get_stakers_by_validator_address", validator.address)

\* main: parse_args (which exits on a missing or malformed argument), setup_logging
SetupLogging ==
    /\ pc = "main"
    /\ \/ /\ \E k \in 0..MaxVerbose :
               /\ args_log_level' = [i \in 1..k |-> -1]
               /\ log_level' = setup_logging([i \in 1..k |-> -1])
          /\ pc' = "connect"
          /\ UNCHANGED failure
       \/ /\ Abort("parse_args")
          /\ UNCHANGED logVars
    /\ UNCHANGED <<fileVars, callVars, block, accounts, validators, parsedAccountVars,
                   parsedStakingVars, toml_output>>

\* async with NimiqClient(...) as client
Connect ==
    /\ pc = "connect"
    /\ \/ pc' = "open" /\ UNCHANGED failure
       \/ Abort("connect")
    /\ UNCHANGED <<logVars, fileVars, callVars, block, accounts, validators,
                   parsedAccountVars, parsedStakingVars, toml_output>>

\* file = open(file_path, "w")
OpenFile ==
    /\ pc = "open"
    /\ \/ /\ file_state' = "open"
          /\ written' = <<>>
          /\ pc' = "request_block"
          /\ UNCHANGED failure
       \/ /\ Raise("open")
          /\ UNCHANGED fileVars
    /\ UNCHANGED <<logVars, callVars, block, accounts, validators, parsedAccountVars,
                   parsedStakingVars, toml_output>>

RequestBlock ==
    /\ pc = "request_block"
    /\ IssueCall("get_latest_block", "")
    /\ pc' = "await_block"
    /\ UNCHANGED <<logVars, fileVars, block, accounts, validators, parsedAccountVars,
                   parsedStakingVars, toml_output, failure>>

\* variant: the provenance header is written as soon as the block is known
BlockReturnWritesHeader ==
    /\ pc = "await_block"
    /\ pending' = pending - 1
    /\ \/ /\ \E b \in BlockPool : block' = b
          /\ written' = written \o <<Header>>
          /\ pc' = "request_accounts"
          /\ UNCHANGED failure
       \/ /\ Raise("get_latest_block")
          /\ UNCHANGED <<block, written>>
    /\ UNCHANGED <<logVars, file_state, calls, accounts, validators, parsedAccountVars,
                   parsedStakingVars, toml_output>>

BlockReturn ==
    /\ pc = "await_block"
    /\ pending' = pending - 1
    /\ \/ /\ \E b \in BlockPool : block' = b
          /\ pc' = "request_accounts"
          /\ UNCHANGED failure
       \/ /\ Raise("get_latest_block")
          /\ UNCHANGED block
    /\ UNCHANGED <<logVars, fileVars, calls, accounts, validators, parsedAccountVars,
                   parsedStakingVars, toml_output>>

RequestAccounts ==
    /\ pc = "request_accounts"
    /\ IssueCall("get_accounts", "")
    /\ pc' = "await_accounts"
    /\ UNCHANGED <<logVars, fileVars, block, accounts, validators, parsedAccountVars,
                   parsedStakingVars, toml_output, failure>>

AccountsReturn ==
    /\ pc = "await_accounts"
    /\ pending' = pending - 1
    /\ \/ /\ \E data \in SeqsUpTo(AccountPool, MaxRecords) : accounts' = data
          /\ pc' = "request_validators"
          /\ UNCHANGED failure
       \/ /\ Raise("get_accounts")
          /\ UNCHANGED accounts
    /\ UNCHANGED <<logVars, fileVars, calls, block, validators, parsedAccountVars,
                   parsedStakingVars, toml_output>>

RequestValidators ==
    /\ pc = "request_validators"
    /\ IssueCall("get_validators", "")
    /\ pc' = "await_validators"
    /\ UNCHANGED <<logVars, fileVars, block, accounts, validators, parsedAccountVars,
                   parsedStakingVars, toml_output, failure>>

ValidatorsReturn ==
    /\ pc = "await_validators"
    /\ pending' = pending - 1
    /\ \/ /\ \E data \in SeqsUpTo(ValidatorPool, MaxRecords - Len(accounts)) :
                validators' = data
          /\ pc' = "classify"
          /\ UNCHANGED failure
       \/ /\ Raise("get_validators")
          /\ UNCHANGED validators
    /\ UNCHANGED <<logVars, fileVars, calls, block, accounts, parsedAccountVars,
                   parsedStakingVars, toml_output>>

\* variant: an unrecognized account type raises
ClassifyStrict ==
    /\ pc = "classify"
    /\ LET parsed == ClassifyAccounts(accounts)
       IN IF \E i \in 1..Len(accounts) : accounts[i].type \notin {"htlc", "vesting", "basic"}
          THEN /\ Raise("unrecognized account type")
               /\ UNCHANGED parsedAccountVars
          ELSE /\ parsed_basic_accounts' = parsed.basic
               /\ parsed_htlcs' = parsed.htlcs
               /\ parsed_vesting' = parsed.vesting
               /\ pc' = "validators_loop"
               /\ UNCHANGED failure
    /\ UNCHANGED <<logVars, fileVars, callVars, block, accounts, validators,
                   parsedStakingVars, toml_output>>

\* toml_output = dict(); the loop over accounts.data
Classify ==
    /\ pc = "classify"
    /\ LET parsed == ClassifyAccounts(accounts)
       IN /\ parsed_basic_accounts' = parsed.basic
          /\ parsed_htlcs' = parsed.htlcs
          /\ parsed_vesting' = parsed.vesting
    /\ pc' = "validators_loop"
    /\ UNCHANGED <<logVars, fileVars, callVars, block, accounts, validators,
                   parsedStakingVars, toml_output, failure>>

\* for validator in validators.data: stakers = await client.get_stakers_by_...
RequestStakers ==
    /\ pc = "validators_loop"
    /\ idx <= Len(validators)
    /\ StakersCall(validators[idx])
    /\ pc' = "await_stakers"
    /\ UNCHANGED <<logVars, fileVars, block, accounts, validators, parsedAccountVars,
                   parsedStakingVars, toml_output, failure>>

\* the rest of the loop body for validators.data[idx]
StakersReturn ==
    /\ pc = "await_stakers"
    /\ pending' = pending - 1
    /\ \/ /\ \E data \in SeqsUpTo(StakerPool, MaxRecords - RecordsFetched) :
                /\ raw_stakers' = Append(raw_stakers, data)
                /\ parsed_validators' =
                       Append(parsed_validators, ValidatorEntry(validators[idx]))
                /\ parsed_stakers' = parsed_stakers \o ParseStakers(data)
                /\ staker_objs' = Append(staker_objs, MutatedStakers(data))
          /\ idx' = idx + 1
          /\ pc' = "validators_loop"
          /\ UNCHANGED failure
       \/ /\ Raise("get_stakers_by_validator_address")
          /\ UNCHANGED parsedStakingVars
    /\ UNCHANGED <<logVars, fileVars, calls, block, accounts, validators,
                   parsedAccountVars, toml_output>>

\* "Now build a dictionary for taking it to TOML"
Assemble ==
    /\ pc = "validators_loop"
    /\ idx > Len(validators)
    /\ toml_output' = AssembleOutput(parsed_basic_accounts, parsed_vesting, parsed_htlcs,
                                     parsed_validators, parsed_stakers)
    /\ pc' = "write"
    /\ UNCHANGED <<logVars, fileVars, callVars, block, accounts, validators,
                   parsedAccountVars, parsedStakingVars, failure>>

\* the five file.write calls, toml.dump and file.close.  The file is buffered: a
\* write, the dump or the flush of close may raise.  When close raises the file
\* object is closed all the same, and the file holds whatever was flushed.
WriteOutput ==
    /\ pc = "write"
    /\ \/ /\ written' = written \o <<HeaderIncomplete>>
          /\ Raise("write")
          /\ UNCHANGED file_state
       \/ /\ \E content \in {<<HeaderIncomplete>>, <<Header, DocumentIncomplete>>} :
                written' = written \o content
          /\ Raise("dump")
          /\ UNCHANGED file_state
       \/ /\ \E content \in {<<HeaderIncomplete>>, <<Header, DocumentIncomplete>>,
                             <<Header, Document>>} :
                written' = written \o content
          /\ file_state' = "closed"
          /\ Raise("close")
       \/ /\ written' = written \o <<Header, Document>>
          /\ file_state' = "closed"
          /\ pc' = "leaving"
          /\ UNCHANGED failure
    /\ UNCHANGED <<logVars, callVars, block, accounts, validators, parsedAccountVars,
                   parsedStakingVars, toml_output>>

\* the end of the async-with block: the session's __aexit__ is awaited, on the
\* normal path and when an exception leaves the block, and may raise itself
LeaveSession ==
    /\ pc = "leaving"
    /\ IF failure = "none"
       THEN \/ pc' = "done" /\ UNCHANGED failure
            \/ Abort("disconnect")
       ELSE pc' = "aborted" /\ UNCHANGED failure
    /\ UNCHANGED <<logVars, fileVars, callVars, block, accounts, validators,
                   parsedAccountVars, parsedStakingVars, toml_output>>

Next ==
    \/ SetupLogging
    \/ Connect
    \/ OpenFile
    \/ RequestBlock
    \/ BlockReturn
    \/ RequestAccounts
    \/ AccountsReturn
    \/ RequestValidators
    \/ ValidatorsReturn
    \/ Classify
    \/ RequestStakers
    \/ StakersReturn
    \/ Assemble
    \/ WriteOutput
    \/ LeaveSession

Spec == Init /\ [][Next]_vars

(***************************************************************************)
(* Helpers of the properties                                               *)
(***************************************************************************)
RECURSIVE Flatten(_)
Flatten(seqs) == IF seqs = <<>> THEN <<>> ELSE Head(seqs) \o Flatten(Tail(seqs))

RecognizedTypes == {"basic", "vesting", "htlc"}
FetchOps == {"get_latest_block", "get_accounts", "get_validators",
             "get_stakers_by_validator_address"}
FileOps == {"open", "write", "dump", "close"}

\* the dictionary has been built
Assembled ==
    \/ pc \in {"write", "done"}
    \/ pc = "leaving" /\ failure = "none"
    \/ failure \in {"write", "dump", "close", "disconnect"}

\* the loop over accounts.data has run
Classified ==
    \/ pc \in {"validators_loop", "await_stakers"}
    \/ failure = "get_stakers_by_validator_address"
    \/ Assembled

OfType(data, t) == SelectSeq(data, LAMBDA a : a.type = t)

\* C1: every staker entry's balance is max(raw balance, MIN_STAKE): at least
\* MIN_STAKE, and the raw balance when that is at least MIN_STAKE.
C1_MinStake ==
    LET raw == Flatten(raw_stakers)
    IN /\ Len(parsed_stakers) = Len(raw)
       /\ \A i \in 1..Len(raw) :
            /\ parsed_stakers[i].balance = Max(raw[i].balance, MIN_STAKE)
            /\ parsed_stakers[i].balance >= MIN_STAKE
            /\ raw[i].balance >= MIN_STAKE => parsed_stakers[i].balance = raw[i].balance

C1_Witness ==
    /\ pc = "done"
    /\ \E i \in 1..Len(parsed_stakers) :
         /\ Flatten(raw_stakers)[i].balance < MIN_STAKE
         /\ parsed_stakers[i].balance = MIN_STAKE
    /\ \E i \in 1..Len(parsed_stakers) :
         /\ Flatten(raw_stakers)[i].balance > MIN_STAKE
         /\ parsed_stakers[i].balance = Flatten(raw_stakers)[i].balance

\* C2: once the accounts are classified, each of the three collections is the
\* subsequence of the fetched records with that type tag, in arrival order and
\* with repetitions kept; their combined size is the number of records with a
\* recognized tag, and a record with another tag is in none of them.
C2_Classification ==
    Classified =>
        LET b == OfType(accounts, "basic")
            v == OfType(accounts, "vesting")
            h == OfType(accounts, "htlc")
        IN /\ parsed_basic_accounts = [i \in 1..Len(b) |-> BasicEntry(b[i])]
           /\ parsed_vesting = [i \in 1..Len(v) |-> VestingEntry(v[i])]
           /\ parsed_htlcs = [i \in 1..Len(h) |-> HtlcEntry(h[i])]
           /\ Len(parsed_basic_accounts) + Len(parsed_vesting) + Len(parsed_htlcs)
                = Cardinality({i \in 1..Len(accounts) : accounts[i].type \in RecognizedTypes})
           /\ \A i \in 1..Len(accounts) :
                accounts[i].type \notin RecognizedTypes =>
                    \A e \in {parsed_basic_accounts[j] : j \in 1..Len(parsed_basic_accounts)}
                          \cup {parsed_vesting[j] : j \in 1..Len(parsed_vesting)}
                          \cup {parsed_htlcs[j] : j \in 1..Len(parsed_htlcs)} :
                        e.address # accounts[i].address

\* the same basic account fetched twice: both entries are emitted
C2_WitnessDuplicate ==
    /\ pc = "done"
    /\ Len(parsed_basic_accounts) = 2
    /\ parsed_basic_accounts[1] = parsed_basic_accounts[2]

\* C3: a collection key is in the assembled dictionary iff its collection is
\* not empty; with no validator fetched neither "validators" nor "stakers" is.
C3_NonEmission ==
    Assembled =>
        /\ "basic_accounts" \in DOMAIN toml_output <=> parsed_basic_accounts # <<>>
        /\ "vesting_accounts" \in DOMAIN toml_output <=> parsed_vesting # <<>>
        /\ "htlc_accounts" \in DOMAIN toml_output <=> parsed_htlcs # <<>>
        /\ "validators" \in DOMAIN toml_output <=> parsed_validators # <<>>
        /\ "stakers" \in DOMAIN toml_output <=> parsed_stakers # <<>>
        /\ validators = <<>> =>
              /\ "validators" \notin DOMAIN toml_output
              /\ "stakers" \notin DOMAIN toml_output

C3_Witness ==
    /\ pc = "done"
    /\ validators = <<>>
    /\ "basic_accounts" \in DOMAIN toml_output
    /\ "validators" \notin DOMAIN toml_output
    /\ "stakers" \notin DOMAIN toml_output

\* C4: one validator entry per fetched validator, in fetch order, also for a
\* validator without stakers; the staker entries are the concatenation of the
\* lookups' results in validator order, one entry per returned record.
C4_CountAndOrder ==
    LET raw == Flatten(raw_stakers)
    IN /\ Len(parsed_validators) = Len(raw_stakers)
       /\ Len(parsed_validators) <= Len(validators)
       /\ Assembled => Len(parsed_validators) = Len(validators)
       /\ \A i \in 1..Len(parsed_validators) :
            parsed_validators[i].validator_address = validators[i].address
       /\ Len(parsed_stakers) = Len(raw)
       /\ \A i \in 1..Len(raw) :
            /\ parsed_stakers[i].staker_address = raw[i].address
            /\ parsed_stakers[i].delegation = raw[i].delegation

C4_Witness ==
    /\ pc = "done"
    /\ Len(validators) = 2
    /\ raw_stakers[1] = <<>>
    /\ Len(raw_stakers[2]) = 2
    /\ \E j \in 1..2 : raw_stakers[2][j].balance < MIN_STAKE
    /\ Len(parsed_validators) = 2
    /\ Len(parsed_stakers) = 2

\* C5: after a failed fetch the run is over, the failed call was the last one
\* issued and no call was issued for it again (the calls are the three list
\* fetches and one lookup per validator reached), and nothing is in the output
\* file; whatever is in the output file was written after every fetch had returned.
C5_NoPartialSnapshot ==
    /\ failure \in FetchOps =>
          /\ pc \in {"leaving", "aborted"}
          /\ written = <<>>
          /\ calls # <<>>
          /\ calls[Len(calls)].op = failure
          /\ Len(calls) = (CASE failure = "get_latest_block" -> 1
                              [] failure = "get_accounts" -> 2
                              [] failure = "get_validators" -> 3
                              [] OTHER -> Len(raw_stakers) + 4)
          /\ toml_output = EmptyDict
    /\ written # <<>> =>
          /\ failure \notin FetchOps
          /\ pending = 0
          /\ block # NoBlock
          /\ Len(calls) = Len(validators) + 3
          /\ Len(raw_stakers) = Len(validators)

C5_Witness ==
    /\ pc = "aborted"
    /\ failure = "get_stakers_by_validator_address"
    /\ Len(raw_stakers) = 1
    /\ Len(calls) = 5
    /\ file_state = "open"
    /\ written = <<>>

\* C6 as stated: no call is repeated.
C6_NoCallRepeated ==
    \A i, j \in 1..Len(calls) : i # j => calls[i] # calls[j]

\* C6, amended: the calls issued are, in order, get_latest_block, get_accounts,
\* get_validators and one staker lookup per entry of the validator list in list
\* order; at most one call is outstanding, a completed run has issued exactly
\* N+3, and two calls are the same only when the list names their validator's
\* address twice.
ExpectedCall(i) ==
    CASE i = 1 -> [op |-> "get_latest_block", arg |-> ""]
      [] i = 2 -> [op |-> "get_accounts", arg |-> ""]
      [] i = 3 -> [op |-> "get_validators", arg |-> ""]
      [] OTHER -> [op |-> "get_stakers_by_validator_address",
                   arg |-> validators[i - 3].address]

C6_CallSequence ==
    /\ pending \in {0, 1}
    /\ pending = 1 <=>
          pc \in {"await_block", "await_accounts", "await_validators", "await_stakers"}
    /\ \A i \in 1..Len(calls) :
          /\ i > 3 => i - 3 <= Len(validators)
          /\ calls[i] = ExpectedCall(i)
    /\ (pc = "done" \/ (pc = "leaving" /\ failure = "none")) =>
          Len(calls) = Len(validators) + 3
    /\ \A i, j \in 1..Len(calls) :
          (i # j /\ calls[i] = calls[j]) =>
              /\ i > 3
              /\ j > 3
              /\ validators[i - 3].address = validators[j - 3].address

C6_Witness ==
    /\ pc = "done"
    /\ Len(validators) = 2
    /\ Len(calls) = 5
    /\ calls[4].arg # calls[5].arg
    /\ Len(Flatten(raw_stakers)) = 2

\* C7: a second pass over the same record objects, the staker objects as the
\* first pass left them, yields the collections of the first pass.
C7_Idempotent ==
    /\ Classified =>
          ClassifyAccounts(accounts) =
              [basic |-> parsed_basic_accounts, htlcs |-> parsed_htlcs,
               vesting |-> parsed_vesting]
    /\ parsed_validators =
          [i \in 1..Len(staker_objs) |-> ValidatorEntry(validators[i])]
    /\ parsed_stakers =
          Flatten([i \in 1..Len(staker_objs) |-> ParseStakers(staker_objs[i])])

C7_Witness ==
    /\ pc = "done"
    /\ accounts # <<>>
    /\ \E i \in 1..Len(staker_objs) : \E j \in 1..Len(staker_objs[i]) :
         /\ raw_stakers[i][j].balance < MIN_STAKE
         /\ staker_objs[i][j].balance = MIN_STAKE

\* C8 as stated: once the session is open, a run in which no remote call and no
\* file operation fails ends successfully.
C8_EndsUnlessFailure == (pc = "open") ~> (pc = "done" \/ failure # "none")

\* where the run waits for the node or for the file system
Waiting == {"open", "await_block", "await_accounts", "await_validators",
            "await_stakers", "write", "leaving"}

\* the node answers every call and every file operation returns
Responsive == []<>(pc \notin Waiting)

\* C8, amended: the run ends with an exception only when the arguments do not
\* parse, the connection fails, a remote call or file operation fails or the
\* session's close fails, whatever the account tags are; a completed run has
\* written the header followed by the document with every recognized record
\* classified; and when the node answers every call and every file operation
\* returns, a run whose session is open ends.
C8_Safety ==
    /\ pc \in {"leaving", "aborted"} =>
          failure \in {"none", "parse_args", "connect", "disconnect"} \cup FetchOps \cup FileOps
    /\ pc = "aborted" => failure # "none"
    /\ pc = "done" =>
          /\ failure = "none"
          /\ written = FileChunks
          /\ file_state = "closed"
          /\ Len(parsed_basic_accounts) + Len(parsed_vesting) + Len(parsed_htlcs)
               = Cardinality({i \in 1..Len(accounts) : accounts[i].type \in RecognizedTypes})

C8_UnrecognizedNeverAborts ==
    /\ []C8_Safety
    /\ Responsive => ((pc = "open") ~> (pc \in {"done", "aborted"}))

C8_Witness ==
    /\ pc = "done"
    /\ Len(accounts) = 2
    /\ accounts[1].type = "frozen"
    /\ accounts[2].type = "basic"
    /\ Len(parsed_basic_accounts) = 1
    /\ written = FileChunks

\* C9: after setup_logging the level index is max(1 - k, 0) for k occurrences
\* of the verbosity flag, and it is an index of LOG_LEVELS.
C9_Verbosity ==
    (pc # "main" /\ failure # "parse_args") =>
        LET k == Len(args_log_level)
        IN /\ log_level = Max(1 - k, 0)
           /\ log_level \in 0..(Len(LOG_LEVELS) - 1)
           /\ LOG_LEVELS[log_level + 1] = (IF k = 0 THEN "INFO" ELSE "DEBUG")

C9_Witness ==
    /\ pc = "connect"
    /\ Len(args_log_level) = 2
    /\ log_level = 0

\* C10: a run that opened the output file has closed it when it ends,
\* completed or aborted, and the file is opened before the first fetch.
C10_FileClosedAtEnd ==
    /\ (pc \in {"done", "aborted"} /\ failure # "open" /\ file_state # "unopened")
          => file_state = "closed"
    /\ calls # <<>> => file_state # "unopened"

\* C10, the part the code keeps: the file is open before the first fetch is issued
C10_OpenedBeforeFetch == calls # <<>> => file_state # "unopened"

\* The steps the program takes by itself.  Connect, the four Return actions and
\* LeaveSession wait for the node, which may stay silent, and OpenFile and
\* WriteOutput are blocking file-system calls: the source sets no timeout.
ProgramStep ==
    \/ SetupLogging
    \/ RequestBlock
    \/ RequestAccounts
    \/ RequestValidators
    \/ Classify
    \/ RequestStakers
    \/ Assemble

\* The event loop runs the coroutine until it completes: an enabled step of the
\* program is taken.  Nothing is assumed of the node or the file system.
FairSpec == Spec /\ WF_vars(ProgramStep)

====
